---- MODULE Spec2Model ----
(***************************************************************************)
(* rand-floor-monitor: a watcher of the Flooring contract's FragmentNft    *)
(* event that enriches every deposited token with market data and posts    *)
(* one message per event to a Telegram channel.                            *)
(*                                                                         *)
(* Two programs are modelled, as the repository holds them:                *)
(*   Spec     the running binary, src/src/main.rs: main's event loop,      *)
(*            send_to_telegram, get_log, get_valuation, get_top_bid, slug; *)
(*   SpecMsg  the structured composer of src/src/message.rs:               *)
(*            Message::fill_message and the Display implementations,       *)
(*            applied to a Message::default().                             *)
(* SpecFair and SpecMsgFair are the two with the progress the code has;    *)
(* SpecShow is Display for Message alone, applied to bounded Messages.     *)
(* Strings are TLA+ strings; a text is the sequence of the pieces the code *)
(* pushes. Prices (f64 in the code) are integers, in ETH; the reference    *)
(* token's price is counted in units of 10^12 wei.                         *)
(***************************************************************************)
EXTENDS Integers, Sequences, FiniteSets, TLC

VARIABLES
    pc,          \* position of the main task (main.rs)
    env,         \* the process environment read by dotenv::var
    from_block,  \* the event filter's from_block (None when not set)
    evNo,        \* number of events the loop has taken from the stream
    log,         \* the FragmentNftFilter being processed
    meta,        \* its LogMeta
    world,       \* what the external services hold while it is processed
    tokIdx,      \* position of get_log's loop over log.token_ids
    out,         \* get_log's String, as the pieces pushed so far
    calls,       \* HTTP calls issued for the event being processed
    sends,       \* every bot.send_message(..).send() so far, with its result
    slept,       \* seconds of the tokio::time::sleep elapsed
    built,       \* number of texts get_log has returned
    item,        \* what the last stream.next() yielded
    mpc,         \* position of the task running Message::fill_message
    mlog,        \* fill_message's log argument
    mmeta,       \* fill_message's meta argument
    mworld,      \* what the external services hold during fill_message
    msg,         \* the Message (self)
    mIdx,        \* position of fill_message's loop over log.token_ids
    mval,        \* the valuation of the Token under construction
    mcalls,      \* external calls issued by fill_message
    mfail,       \* the lookup whose unwrap panicked, if any
    text         \* the Message's Display output, as lines

vars == <<pc, env, from_block, evNo, log, meta, world, tokIdx, out, calls,
          sends, slept, built, item, mpc, mlog, mmeta, mworld, msg, mIdx, mval, mcalls,
          mfail, text>>

mainVars == <<pc, env, from_block, evNo, log, meta, world, tokIdx, out,
              calls, sends, slept, built, item>>
msgVars == <<mpc, mlog, mmeta, mworld, msg, mIdx, mval, mcalls, mfail,
            text>>

-----------------------------------------------------------------------------
(* Bounds of the model. *)
MaxEvents == 2
MaxTokens == 2

(* Program constants. *)
COOLDOWN_SECS == 35
PEG_RATIO == 1000000
DECIMALS == 18

-----------------------------------------------------------------------------
(* Option<T> *)
None == [some |-> FALSE]
Some(v) == [some |-> TRUE, v |-> v]

(* serde_json::Value, as far as the code looks at it. *)
JNull == [t |-> "null", n |-> 0, s |-> ""]
JNum(n) == [t |-> "num", n |-> n, s |-> ""]
JStr(s) == [t |-> "str", n |-> 0, s |-> s]

(* Value::to_string(): JSON text, a string keeps its quotes. *)
JsonToString(v) ==
    CASE v.t = "null" -> "null"
      [] v.t = "num" -> ToString(v.n)
      [] v.t = "str" -> "\"" \o v.s \o "\""

(* Value::as_str() *)
AsStr(v) == IF v.t = "str" THEN Some(v.s) ELSE None

(* str::parse::<f64>() on the numbers the model uses. *)
Numbers == 0..9
ParseF64(s) ==
    IF \E n \in Numbers : ToString(n) = s
    THEN Some(CHOOSE n \in Numbers : ToString(n) = s)
    ELSE None

RECURSIVE Pow10(_)
Pow10(k) == IF k = 0 THEN 1 ELSE 10 * Pow10(k - 1)

-----------------------------------------------------------------------------
(* The address -> slug table of slug(). *)
collection_slugs ==
    [c \in {"0xbd3531da5cf5857e7cfaa92426877b022e612cf8",
            "0xbc4ca0eda7647a8ab7c2061c2e118a18a936f13d",
            "0xfd1b0b0dfa524e1fd42e7d51155a663c581bbd50",
            "0xed5af388653567af2f388e6224dc7c4b3241c544",
            "0x8821bee2ba0df28761afff119d66390d594cd280",
            "0x49cf6f5d44e70224e2e23fdcdd2c053f30ada28b",
            "0x60e4d786628fea6478f785a6d7e704777c86a7c6",
            "0x8a90cab2b38dba80c64b7734e58ee1db38b8992e",
            "0x23581767a106ae21c074b2276d25e5c3e136a68b"} |->
        CASE c = "0xbd3531da5cf5857e7cfaa92426877b022e612cf8" -> "pudgypenguins"
          [] c = "0xbc4ca0eda7647a8ab7c2061c2e118a18a936f13d" -> "boredapeyachtclub"
          [] c = "0xfd1b0b0dfa524e1fd42e7d51155a663c581bbd50" -> "y00ts"
          [] c = "0xed5af388653567af2f388e6224dc7c4b3241c544" -> "azuki"
          [] c = "0x8821bee2ba0df28761afff119d66390d594cd280" -> "degods"
          [] c = "0x49cf6f5d44e70224e2e23fdcdd2c053f30ada28b" -> "clonex"
          [] c = "0x60e4d786628fea6478f785a6d7e704777c86a7c6" -> "mutant-ape-yacht-club"
          [] c = "0x8a90cab2b38dba80c64b7734e58ee1db38b8992e" -> "doodles-official"
          [] c = "0x23581767a106ae21c074b2276d25e5c3e136a68b" -> "proof-moonbirds"]

slug(collection) ==
    IF collection \in DOMAIN collection_slugs
    THEN Some(collection_slugs[collection])
    ELSE None

-----------------------------------------------------------------------------
(* Inputs: the events the subscription can deliver and the answers of the  *)
(* external services.  Addresses and hashes are as {:#x} prints them.      *)
Collections == {"0xbd3531da5cf5857e7cfaa92426877b022e612cf8",
                "0x000000000000000000000000000000000000dead"}
TxHashes == {"0xaa"}
TokenIdSet == {1, 2}

RECURSIVE SeqsUpTo(_, _)
SeqsUpTo(S, n) ==
    IF n = 0 THEN {<<>>}
    ELSE LET shorter == SeqsUpTo(S, n - 1)
         IN  shorter \cup {Append(q, x) : q \in shorter, x \in S}

Logs == [collection : Collections, token_ids : SeqsUpTo(TokenIdSet, MaxTokens)]
Metas == [transaction_hash : TxHashes]

(* One order of the bid service's answer. *)
Order(decimal, name, url) ==
    [decimal |-> decimal, name |-> name, url |-> url]
OrderLists == {<<>>,
               <<Order(JNum(6), JStr("blur"), JStr("https://blur.io"))>>,
               <<Order(JNum(0), JStr("opensea"), JStr("https://opensea.io"))>>}

(* The reference token's price, in units of 10^12 wei. *)
MuPrices == {2, 3}

Worlds == [orders : [TokenIdSet -> OrderLists], mu_price : MuPrices]

(* main.rs never asks the price feed: one reference price is enough there. *)
MainWorlds == {w \in Worlds : w.mu_price = 2}

(* Answers of the valuation service for one token. *)
ValAnswer(has, price, currency) ==
    [has_valuation |-> has, price |-> price, currency |-> currency]
ValAnswers == {ValAnswer(FALSE, JNull, JNull),
               ValAnswer(TRUE, JStr("5"), JStr("ETH")),
               ValAnswer(TRUE, JStr("n/a"), JStr("ETH")),
               ValAnswer(TRUE, JNull, JStr("ETH"))}
FloorAnswers == {JStr("4"), JNull}

NoLog == [collection |-> "", token_ids |-> <<>>]
NoMeta == [transaction_hash |-> ""]
NoWorld == [orders |-> [t \in TokenIdSet |-> <<>>], mu_price |-> 0]

(* The process environment. *)
EnvVars == {"RPC", "STARTING_BLOCK", "TELEGRAM_BOT_TOKEN",
            "RESERVOIR_API_KEY", "DEEP_API_KEY", "MORALIS_API_KEY"}
FullEnv(starting_block) ==
    [v \in EnvVars |->
        IF v = "STARTING_BLOCK" THEN Some(starting_block) ELSE Some("set")]
Envs == {FullEnv(b) : b \in {"0", "5", "latest"}}
        \cup {[FullEnv("0") EXCEPT ![v] = None] : v \in EnvVars}

(* main.rs never reads MORALIS_API_KEY. *)
MainEnvs == {e \in Envs : e["MORALIS_API_KEY"].some}

-----------------------------------------------------------------------------
(* src/src/main.rs                                                         *)

(* One external request and what came back. *)
Call(svc, token_id, res) == [svc |-> svc, token |-> token_id, res |-> res]

(* The requests of one lookup, with the position of its token in token_ids *)
At(cs, idx) ==
    [k \in 1..Len(cs) |->
        [svc |-> cs[k].svc, token |-> cs[k].token, res |-> cs[k].res,
         idx |-> idx]]

(* u64 parse of STARTING_BLOCK *)
ParseU64(s) == ParseF64(s)

MainInit ==
    /\ pc = "connect"
    /\ env \in MainEnvs
    /\ from_block = None
    /\ evNo = 0
    /\ log = NoLog
    /\ meta = NoMeta
    /\ world = NoWorld
    /\ tokIdx = 0
    /\ out = <<>>
    /\ calls = <<>>
    /\ sends = <<>>
    /\ slept = 0
    /\ built = 0
    /\ item = "none"

(* main, lines 26-27 and get_client, lines 58-62: the unwrap of a missing  *)
(* RPC variable or of a failed connection panics.                          *)
Connect ==
    /\ pc = "connect"
    /\ \E connected \in BOOLEAN :
         pc' = IF env["RPC"].some /\ connected THEN "configure" ELSE "panicked"
    /\ UNCHANGED <<item, built, env, from_block, evNo, log, meta, world, tokIdx,
                   out, calls, sends, slept>>
    /\ UNCHANGED msgVars

(* main, lines 34-42: the starting block as the filter gets it, None when  *)
(* from_block is not called.                                               *)
FromBlock(block) == IF block = 0 THEN None ELSE Some(block)

(* main, lines 31-42: the event filter.  The unwrap of a missing or        *)
(* unparsable STARTING_BLOCK panics.                                       *)
Configure ==
    /\ pc = "configure"
    /\ LET block == IF env["STARTING_BLOCK"].some
                    THEN ParseU64(env["STARTING_BLOCK"].v)
                    ELSE None
       IN  IF ~block.some
           THEN /\ pc' = "panicked"
                /\ from_block' = from_block
           ELSE /\ pc' = "subscribe"
                /\ from_block' = FromBlock(block.v)
    /\ UNCHANGED <<item, built, env, evNo, log, meta, world, tokIdx, out, calls,
                   sends, slept>>
    /\ UNCHANGED msgVars

(* main, line 44: event.subscribe_with_meta().await? *)
Subscribe ==
    /\ pc = "subscribe"
    /\ \E ok \in BOOLEAN : pc' = IF ok THEN "listening" ELSE "exited_err"
    /\ UNCHANGED <<item, built, env, from_block, evNo, log, meta, world, tokIdx, out, calls,
                   sends, slept>>
    /\ UNCHANGED msgVars

(* Mutant: the next event is taken while the previous one still awaits    *)
(* its send, as if send_to_telegram were spawned instead of awaited.       *)
StreamNextNoAwait ==
    /\ pc \in {"listening", "send"}
    /\ evNo < MaxEvents
    /\ \E l \in Logs, m \in Metas, w \in MainWorlds :
         /\ log' = l
         /\ meta' = m
         /\ world' = w
    /\ evNo' = evNo + 1
    /\ pc' = "bot_new"
    /\ tokIdx' = 0
    /\ out' = <<>>
    /\ calls' = <<>>
    /\ item' = "event"
    /\ UNCHANGED <<built, env, from_block, sends, slept>>
    /\ UNCHANGED msgVars

(* main, line 47: stream.next().await yields Some(Ok((log, meta))) *)
StreamNextEvent ==
    /\ pc = "listening"
    /\ evNo < MaxEvents
    /\ \E l \in Logs, m \in Metas, w \in MainWorlds :
         /\ log' = l
         /\ meta' = m
         /\ world' = w
    /\ evNo' = evNo + 1
    /\ pc' = "bot_new"
    /\ tokIdx' = 0
    /\ out' = <<>>
    /\ calls' = <<>>
    /\ item' = "event"
    /\ UNCHANGED <<built, env, from_block, sends, slept>>
    /\ UNCHANGED msgVars

(* Mutant: an Err item is skipped and the loop goes on. *)
StreamNextSkipsErr ==
    /\ pc = "listening"
    /\ \E it \in {"err", "end"} :
         /\ item' = it
         /\ pc' = IF it = "err" THEN "listening" ELSE "exited_ok"
    /\ UNCHANGED <<built, env, from_block, evNo, log, meta, world, tokIdx, out,
                   calls, sends, slept>>
    /\ UNCHANGED msgVars

(* main, lines 47 and 55: the stream yields Some(Err(_)) or None, the      *)
(* while-let pattern fails and main returns Ok(()).                        *)
StreamNextEnd ==
    /\ pc = "listening"
    /\ item' \in {"err", "end"}
    /\ pc' = "exited_ok"
    /\ UNCHANGED <<built, env, from_block, evNo, log, meta, world, tokIdx, out, calls,
                   sends, slept>>
    /\ UNCHANGED msgVars

(* send_to_telegram, lines 66-68: Bot::new(dotenv::var(..).unwrap()) *)
BotNew ==
    /\ pc = "bot_new"
    /\ pc' = IF env["TELEGRAM_BOT_TOKEN"].some THEN "header" ELSE "panicked"
    /\ UNCHANGED <<item, built, env, from_block, evNo, log, meta, world, tokIdx, out, calls,
                   sends, slept>>
    /\ UNCHANGED msgVars

(* get_log, lines 84-97 *)
GetLogHeader ==
    /\ pc = "header"
    /\ LET etherscan_link ==
               "<a href=\"" \o "https://etherscan.io/tx/" \o meta.transaction_hash
               \o "\">" \o meta.transaction_hash \o "</a>"
           found == slug(log.collection)
           collection_name ==
               IF found.some THEN "\nCollection: " \o found.v
               ELSE "\nCollection: " \o log.collection
       IN  out' = <<etherscan_link, collection_name>>
    /\ tokIdx' = 1
    /\ pc' = IF log.token_ids = <<>> THEN "send" ELSE "links"
    /\ built' = IF log.token_ids = <<>> THEN built + 1 ELSE built
    /\ UNCHANGED <<item, env, from_block, evNo, log, meta, world, calls, sends, slept>>
    /\ UNCHANGED msgVars

(* get_log, lines 100-120: the three marketplace links of one token *)
TokenLinks ==
    /\ pc = "links"
    /\ LET token_id == ToString(log.token_ids[tokIdx])
           blur_link ==
               "\n\n<a href=\"" \o "https://blur.io/asset/" \o log.collection
               \o "/" \o token_id \o "\">blur: " \o token_id \o "</a>"
           flooring_link ==
               "\n<a href=\"" \o "https://www.flooring.io/nft-details/"
               \o log.collection \o "/" \o token_id \o "\">flooring: "
               \o token_id \o "</a>"
           opensea_pro_link ==
               "\n<a href=\"" \o "https://pro.opensea.io/nft/" \o log.collection
               \o "/" \o token_id \o "\">opensea pro: " \o token_id \o "</a>"
       IN  out' = out \o <<blur_link, flooring_link, opensea_pro_link>>
    /\ pc' = "valuation"
    /\ UNCHANGED <<item, built, env, from_block, evNo, log, meta, world, tokIdx, calls, sends,
                   slept>>
    /\ UNCHANGED msgVars

(* get_valuation (main.rs), lines 162-234, on the answers of the token     *)
(* request (transport, body) and of the floor request.  The result is      *)
(* [panic, calls, text].                                                   *)
MainValuation(collection, token_id, tok_sent, answer, floor_sent, floor) ==
    LET found == slug(collection)
        tok(res) == <<Call("valuation", token_id, res)>>
        flo(res) == <<Call("floor", token_id, res)>>
        R(panic, cs, s) == [panic |-> panic, calls |-> cs, text |-> s]
    IN  IF ~found.some
        THEN R(FALSE, <<>>, "\nCollection is not on DeepNFTValue ):")
        ELSE IF ~env["DEEP_API_KEY"].some THEN R(TRUE, <<>>, "")
        ELSE IF ~tok_sent THEN R(TRUE, tok("transport"), "")
        ELSE IF ~answer.has_valuation
        THEN R(FALSE, tok("no_valuation"), "\nError getting valuation ):")
        ELSE IF ~AsStr(answer.price).some \/ ~AsStr(answer.currency).some
        THEN R(TRUE, tok("shape"), "")
        ELSE IF ~floor_sent THEN R(TRUE, tok("ok") \o flo("transport"), "")
        ELSE IF ~AsStr(floor).some
        THEN R(FALSE, tok("ok") \o flo("no_floor"), "\nError getting floor ):")
        ELSE R(FALSE, tok("ok") \o flo("ok"),
               "\n<a href=\"" \o "https://deepnftvalue.com/asset/" \o found.v
               \o "/" \o ToString(token_id) \o "\">DeepNFTValue: "
               \o AsStr(answer.price).v \o " " \o AsStr(answer.currency).v
               \o "; floor: " \o AsStr(floor).v \o "</a>")

(* get_log, lines 122-123 *)
GetValuation ==
    /\ pc = "valuation"
    /\ \E tok_sent \in BOOLEAN, answer \in ValAnswers,
          floor_sent \in BOOLEAN, floor \in FloorAnswers :
         LET r == MainValuation(log.collection, log.token_ids[tokIdx],
                                tok_sent, answer, floor_sent, floor)
         IN  /\ calls' = calls \o At(r.calls, tokIdx)
             /\ IF r.panic
                THEN /\ pc' = "panicked"
                     /\ out' = out
                ELSE /\ pc' = "top_bid"
                     /\ out' = Append(out, r.text)
    /\ UNCHANGED <<item, built, env, from_block, evNo, log, meta, world, tokIdx, sends, slept>>
    /\ UNCHANGED msgVars

(* json["orders"][0][..]: indexing past the end of the array is Null *)
FirstOrder(orders) ==
    IF orders = <<>> THEN Order(JNull, JNull, JNull) ELSE orders[1]

(* get_top_bid (main.rs), lines 132-160: [panic, calls, text] *)
MainTopBid(collection, token_id, sent, orders) ==
    LET call(res) == <<Call("bids", token_id, res)>>
        first == FirstOrder(orders)
        top_bid == JsonToString(first.decimal)
        top_bid_url == JsonToString(first.url)
        top_bid_kind == JsonToString(first.name)
    IN  IF ~env["RESERVOIR_API_KEY"].some
        THEN [panic |-> TRUE, calls |-> <<>>, text |-> ""]
        ELSE IF ~sent
        THEN [panic |-> TRUE, calls |-> call("transport"), text |-> ""]
        ELSE [panic |-> FALSE,
              calls |-> call(IF orders = <<>> THEN "empty" ELSE "ok"),
              text |-> "\n<a href=" \o top_bid_url \o ">Top Bid: " \o top_bid
                       \o " ETH on " \o top_bid_kind \o "</a>"]

(* get_log, lines 125-127, and the loop's step *)
GetTopBid ==
    /\ pc = "top_bid"
    /\ \E sent \in BOOLEAN :
         LET r == MainTopBid(log.collection, log.token_ids[tokIdx], sent,
                             world.orders[log.token_ids[tokIdx]])
         IN  /\ calls' = calls \o At(r.calls, tokIdx)
             /\ IF r.panic
                THEN /\ pc' = "panicked"
                     /\ out' = out
                     /\ tokIdx' = tokIdx
                     /\ built' = built
                ELSE /\ out' = Append(out, r.text)
                     /\ tokIdx' = tokIdx + 1
                     /\ pc' = IF tokIdx < Len(log.token_ids)
                              THEN "links" ELSE "send"
                     /\ built' = IF tokIdx < Len(log.token_ids)
                                 THEN built ELSE built + 1
    /\ UNCHANGED <<item, env, from_block, evNo, log, meta, world, sends, slept>>
    /\ UNCHANGED msgVars

(* Mutant: a failed send is tried again with the same text. *)
SendWithRetry ==
    /\ pc = "send"
    /\ \E ok \in BOOLEAN :
         /\ sends' = Append(sends, [ev |-> evNo, ok |-> ok])
         /\ IF ok
            THEN /\ pc' = "listening"
                 /\ log' = NoLog
                 /\ meta' = NoMeta
                 /\ world' = NoWorld
                 /\ tokIdx' = 0
                 /\ out' = <<>>
                 /\ calls' = <<>>
            ELSE UNCHANGED <<pc, log, meta, world, tokIdx, out, calls>>
    /\ slept' = 0
    /\ UNCHANGED <<item, built, env, from_block, evNo>>
    /\ UNCHANGED msgVars

(* Mutant: the sleep follows the send whatever its outcome. *)
SendAlwaysSleeps ==
    /\ pc = "send"
    /\ \E ok \in BOOLEAN :
         /\ sends' = Append(sends, [ev |-> evNo, ok |-> ok])
         /\ pc' = "sleeping"
    /\ slept' = 0
    /\ log' = NoLog
    /\ meta' = NoMeta
    /\ world' = NoWorld
    /\ tokIdx' = 0
    /\ out' = <<>>
    /\ calls' = <<>>
    /\ UNCHANGED <<item, built, env, from_block, evNo>>
    /\ UNCHANGED msgVars

(* send_to_telegram, lines 69-80: the send and its two outcomes.  The      *)
(* log, its text and the bot are dropped when the function returns.        *)
Send ==
    /\ pc = "send"
    /\ \E ok \in BOOLEAN :
         /\ sends' = Append(sends, [ev |-> evNo, ok |-> ok])
         /\ pc' = IF ok THEN "listening" ELSE "sleeping"
    /\ slept' = 0
    /\ log' = NoLog
    /\ meta' = NoMeta
    /\ world' = NoWorld
    /\ tokIdx' = 0
    /\ out' = <<>>
    /\ calls' = <<>>
    /\ UNCHANGED <<item, built, env, from_block, evNo>>
    /\ UNCHANGED msgVars

(* One second of the sleep of line 78 passes. *)
Tick ==
    /\ pc = "sleeping"
    /\ slept < COOLDOWN_SECS
    /\ slept' = slept + 1
    /\ UNCHANGED <<item, built, pc, env, from_block, evNo, log, meta, world, tokIdx, out,
                   calls, sends>>
    /\ UNCHANGED msgVars

(* Mutant: the sleep returns at once. *)
WakeEarly ==
    /\ pc = "sleeping"
    /\ pc' = "listening"
    /\ UNCHANGED <<item, built, env, from_block, evNo, log, meta, world, tokIdx, out,
                   calls, sends, slept>>
    /\ UNCHANGED msgVars

(* The sleep of line 78 returns once its duration has elapsed. *)
Wake ==
    /\ pc = "sleeping"
    /\ slept >= COOLDOWN_SECS
    /\ pc' = "listening"
    /\ UNCHANGED <<item, built, env, from_block, evNo, log, meta, world, tokIdx, out, calls,
                   sends, slept>>
    /\ UNCHANGED msgVars

(* Message::default(), Token and TopBid as derive(Default) builds them *)
DefaultMuToken == [dexscreener_link |-> "", name |-> "", derived_price |-> 0]
DefaultMessage ==
    [etherscan_link |-> "", collection_header |-> "",
     mu_token |-> DefaultMuToken, tokens |-> <<>>]
DefaultTopBid == [url |-> "", kind |-> "", price |-> 0]
NoFail == [svc |-> "", idx |-> 0, cause |-> ""]

MsgIdle ==
    /\ mpc = "idle"
    /\ mlog = NoLog
    /\ mmeta = NoMeta
    /\ mworld = NoWorld
    /\ msg = DefaultMessage
    /\ mIdx = 0
    /\ mval = None
    /\ mcalls = <<>>
    /\ mfail = NoFail
    /\ text = <<>>

Init == MainInit /\ MsgIdle

Next ==
    \/ Connect
    \/ Configure
    \/ Subscribe
    \/ StreamNextEvent
    \/ StreamNextEnd
    \/ BotNew
    \/ GetLogHeader
    \/ TokenLinks
    \/ GetValuation
    \/ GetTopBid
    \/ Send
    \/ Tick
    \/ Wake

Spec == Init /\ [][Next]_vars

(* The tokio timer of the sleep of line 78 runs and fires: time passes    *)
(* and the sleep returns.                                                  *)
(* Every request of an event in progress is answered or fails, and the    *)
(* task runs on: the stream alone may stay silent.                         *)
SpecFair ==
    /\ Spec
    /\ WF_vars(Tick) /\ WF_vars(Wake)
    /\ WF_vars(BotNew) /\ WF_vars(GetLogHeader) /\ WF_vars(TokenLinks)
    /\ WF_vars(GetValuation) /\ WF_vars(GetTopBid) /\ WF_vars(Send)

-----------------------------------------------------------------------------
(* src/src/message.rs                                                      *)

(* Answers of the price feed about the reference token. *)
WeiString(mu_price) == ToString(mu_price) \o "000000000000"
FeedAnswer(has_native, value, token_name) ==
    [has_native |-> has_native, value |-> value, token_name |-> token_name]
FeedAnswers(mu_price) ==
    {FeedAnswer(TRUE, JStr(WeiString(mu_price)), JStr("uPPG")),
     FeedAnswer(FALSE, JNull, JStr("uPPG")),
     FeedAnswer(TRUE, JStr(WeiString(mu_price)), JNull)}
MuAddress == "0x00000000000000000000000000000000000000b1"

(* parse::<f64>() of a price in wei, counted in units of 10^12 wei *)
ParseWei(s) ==
    IF \E n \in Numbers : WeiString(n) = s
    THEN Some(CHOOSE n \in Numbers : WeiString(n) = s)
    ELSE None

(* get_mu_token_details, line 224: mu_token_price * 1_000_000 / 10^18,     *)
(* on a price in units of 10^12 wei.                                       *)
DerivedPrice(mu_token_price) ==
    (mu_token_price * PEG_RATIO) \div Pow10(DECIMALS - 12)

Fail(svc, idx, cause) == [svc |-> svc, idx |-> idx, cause |-> cause]

(* A caller builds Message::default() and calls fill_message(log, meta). *)
MsgStart ==
    /\ mpc = "idle"
    /\ \E l \in Logs, m \in Metas, w \in Worlds :
         /\ mlog' = l
         /\ mmeta' = m
         /\ mworld' = w
    /\ msg' = DefaultMessage
    /\ mpc' = "fill_header"
    /\ UNCHANGED <<mIdx, mval, mcalls, mfail, text>>
    /\ UNCHANGED mainVars

(* fill_message, lines 146-155 *)
FillHeader ==
    /\ mpc = "fill_header"
    /\ LET tx_hash == mmeta.transaction_hash
           collection_address == mlog.collection
           found == slug(collection_address)
       IN  msg' = [msg EXCEPT
                     !.etherscan_link = "https://etherscan.io/tx/" \o tx_hash,
                     !.collection_header =
                         IF found.some THEN "\nCollection: " \o found.v
                         ELSE "\nCollection: " \o collection_address]
    /\ mpc' = "mu_token"
    /\ UNCHANGED <<mlog, mmeta, mworld, mIdx, mval, mcalls, mfail, text>>
    /\ UNCHANGED mainVars

(* get_mu_token_details, lines 183-238, on the outcome of the chain call   *)
(* and of the price-feed request: [fail, calls, mu_token].                 *)
MuTokenDetails(collection, chain_ok, feed_sent, answer) ==
    LET chain(res) == <<Call("collection_info", 0, res)>>
        feed(res) == <<Call("price_feed", 0, res)>>
        R(cause, cs, t) == [fail |-> cause, calls |-> cs, mu_token |-> t]
        value == AsStr(answer.value)
        price == IF value.some THEN ParseWei(value.v) ELSE None
        name == AsStr(answer.token_name)
    IN  IF ~chain_ok THEN R("transport", chain("transport"), DefaultMuToken)
        ELSE IF ~env["MORALIS_API_KEY"].some
        THEN R("env", chain("ok"), DefaultMuToken)
        ELSE IF ~feed_sent
        THEN R("transport", chain("ok") \o feed("transport"), DefaultMuToken)
        ELSE IF ~answer.has_native \/ ~price.some \/ ~name.some
        THEN R("shape", chain("ok") \o feed("shape"), DefaultMuToken)
        ELSE R("", chain("ok") \o feed("ok"),
               [dexscreener_link |->
                    "https://dexscreener.com/ethereum/" \o MuAddress,
                name |-> name.v,
                derived_price |-> DerivedPrice(price.v)])

(* fill_message, lines 157-158 *)
FillMuToken ==
    /\ mpc = "mu_token"
    /\ \E chain_ok \in BOOLEAN, feed_sent \in BOOLEAN,
          answer \in FeedAnswers(mworld.mu_price) :
         LET r == MuTokenDetails(mlog.collection, chain_ok, feed_sent, answer)
         IN  /\ mcalls' = mcalls \o At(r.calls, mIdx)
             /\ IF r.fail # ""
                THEN /\ mpc' = "panicked"
                     /\ mfail' = Fail("mu_token", 0, r.fail)
                     /\ UNCHANGED <<msg, mIdx>>
                ELSE /\ msg' = [msg EXCEPT !.mu_token = r.mu_token]
                     /\ mIdx' = 1
                     /\ mpc' = IF mlog.token_ids = <<>>
                               THEN "filled" ELSE "fill_valuation"
                     /\ mfail' = mfail
    /\ UNCHANGED <<mlog, mmeta, mworld, mval, text>>
    /\ UNCHANGED mainVars

(* Mutant: a missing valuation object is unwrapped, like the other fields. *)
MsgValuationUnwrap(collection, token_id, sent, answer) ==
    LET found == slug(collection)
        call(res) == <<Call("valuation", token_id, res)>>
        R(cause, cs, v) == [fail |-> cause, calls |-> cs, valuation |-> v]
        price_str == AsStr(answer.price)
        price == IF price_str.some THEN ParseF64(price_str.v) ELSE None
    IN  IF ~found.some THEN R("", <<>>, None)
        ELSE IF ~env["DEEP_API_KEY"].some THEN R("env", <<>>, None)
        ELSE IF ~sent THEN R("transport", call("transport"), None)
        ELSE IF ~answer.has_valuation THEN R("shape", call("no_valuation"), None)
        ELSE IF ~price.some THEN R("shape", call("shape"), None)
        ELSE R("", call("ok"),
               Some([url |-> "https://deepnftvalue.com/asset/" \o found.v
                             \o "/" \o ToString(token_id),
                     price |-> price.v]))

(* Mutant: the valuation service is asked whatever slug() answers, with    *)
(* the address standing in for a missing slug.                             *)
MsgValuationNoSlugCheck(collection, token_id, sent, answer) ==
    LET found == slug(collection)
        name == IF found.some THEN found.v ELSE collection
        call(res) == <<Call("valuation", token_id, res)>>
        R(cause, cs, v) == [fail |-> cause, calls |-> cs, valuation |-> v]
        price_str == AsStr(answer.price)
        price == IF price_str.some THEN ParseF64(price_str.v) ELSE None
    IN  IF ~env["DEEP_API_KEY"].some THEN R("env", <<>>, None)
        ELSE IF ~sent THEN R("transport", call("transport"), None)
        ELSE IF ~answer.has_valuation THEN R("", call("no_valuation"), None)
        ELSE IF ~price.some THEN R("shape", call("shape"), None)
        ELSE R("", call("ok"),
               Some([url |-> "https://deepnftvalue.com/asset/" \o name
                             \o "/" \o ToString(token_id),
                     price |-> price.v]))

(* Message::get_valuation, lines 269-315: [fail, calls, valuation] *)
MsgValuation(collection, token_id, sent, answer) ==
    LET found == slug(collection)
        call(res) == <<Call("valuation", token_id, res)>>
        R(cause, cs, v) == [fail |-> cause, calls |-> cs, valuation |-> v]
        price_str == AsStr(answer.price)
        price == IF price_str.some THEN ParseF64(price_str.v) ELSE None
    IN  IF ~found.some THEN R("", <<>>, None)
        ELSE IF ~env["DEEP_API_KEY"].some THEN R("env", <<>>, None)
        ELSE IF ~sent THEN R("transport", call("transport"), None)
        ELSE IF ~answer.has_valuation THEN R("", call("no_valuation"), None)
        ELSE IF ~price.some THEN R("shape", call("shape"), None)
        ELSE R("", call("ok"),
               Some([url |-> "https://deepnftvalue.com/asset/" \o found.v
                             \o "/" \o ToString(token_id),
                     price |-> price.v]))

(* Message::get_top_bid, lines 240-267: [fail, calls, top_bid] *)
MsgTopBid(collection, token_id, sent, orders) ==
    LET call(res) == <<Call("bids", token_id, res)>>
        R(cause, cs, b) == [fail |-> cause, calls |-> cs, top_bid |-> b]
        first == FirstOrder(orders)
        top_bid == JsonToString(first.decimal)
        top_bid_url == JsonToString(first.url)
        top_bid_kind == JsonToString(first.name)
        price == ParseF64(top_bid)
    IN  IF ~env["RESERVOIR_API_KEY"].some THEN R("env", <<>>, DefaultTopBid)
        ELSE IF ~sent THEN R("transport", call("transport"), DefaultTopBid)
        ELSE IF ~price.some
        THEN R(IF orders = <<>> THEN "empty_orders" ELSE "shape",
               call(IF orders = <<>> THEN "empty" ELSE "shape"), DefaultTopBid)
        ELSE R("", call("ok"),
               [url |-> top_bid_url, kind |-> top_bid_kind, price |-> price.v])

(* Mutant: the valuation lookups are scattered: the one that completes    *)
(* now is the one of any token still to be pushed.                         *)
FillValuationScatter ==
    /\ mpc = "fill_valuation"
    /\ \E sent \in BOOLEAN, answer \in ValAnswers,
          j \in mIdx..Len(mlog.token_ids) :
         LET r == MsgValuation(mlog.collection, mlog.token_ids[j], sent,
                               answer)
         IN  /\ mcalls' = mcalls \o At(r.calls, j)
             /\ IF r.fail # ""
                THEN /\ mpc' = "panicked"
                     /\ mfail' = Fail("valuation", mIdx, r.fail)
                     /\ mval' = mval
                ELSE /\ mpc' = "fill_top_bid"
                     /\ mfail' = mfail
                     /\ mval' = r.valuation
    /\ UNCHANGED <<mlog, mmeta, mworld, msg, mIdx, text>>
    /\ UNCHANGED mainVars

(* fill_message, line 173: the token's valuation lookup *)
FillValuation ==
    /\ mpc = "fill_valuation"
    /\ \E sent \in BOOLEAN, answer \in ValAnswers :
         LET r == MsgValuation(mlog.collection, mlog.token_ids[mIdx], sent,
                               answer)
         IN  /\ mcalls' = mcalls \o At(r.calls, mIdx)
             /\ IF r.fail # ""
                THEN /\ mpc' = "panicked"
                     /\ mfail' = Fail("valuation", mIdx, r.fail)
                     /\ mval' = mval
                ELSE /\ mpc' = "fill_top_bid"
                     /\ mfail' = mfail
                     /\ mval' = r.valuation
    /\ UNCHANGED <<mlog, mmeta, mworld, msg, mIdx, text>>
    /\ UNCHANGED mainVars

(* The Token of fill_message, lines 162-175 *)
NewToken(collection_address, token_id, valuation, top_bid) ==
    [token_id |-> token_id,
     blur_link |-> "https://blur.io/asset/" \o collection_address \o "/"
                   \o ToString(token_id),
     flooring_link |-> "https://www.flooring.io/nft-details/"
                       \o collection_address \o "/" \o ToString(token_id),
     opensea_pro_link |-> "https://pro.opensea.io/nft/" \o collection_address
                          \o "/" \o ToString(token_id),
     valuation |-> valuation,
     top_bid |-> top_bid]

(* Mutant: the token is put in front, so the tokens come out reversed. *)
PushFront(tokens, token) == <<token>> \o tokens

(* fill_message, line 177: self.tokens.push(token) *)
PushToken(tokens, token) == Append(tokens, token)

(* fill_message, lines 174-178: the token's bid lookup, the push and the   *)
(* loop's step.                                                            *)
FillTopBid ==
    /\ mpc = "fill_top_bid"
    /\ \E sent \in BOOLEAN :
         LET token_id == mlog.token_ids[mIdx]
             r == MsgTopBid(mlog.collection, token_id, sent,
                            mworld.orders[token_id])
         IN  /\ mcalls' = mcalls \o At(r.calls, mIdx)
             /\ IF r.fail # ""
                THEN /\ mpc' = "panicked"
                     /\ mfail' = Fail("bids", mIdx, r.fail)
                     /\ UNCHANGED <<msg, mIdx, mval>>
                ELSE /\ mfail' = mfail
                     /\ msg' = [msg EXCEPT !.tokens =
                                  PushToken(@, NewToken(mlog.collection, token_id,
                                                        mval, r.top_bid))]
                     /\ mval' = None
                     /\ mIdx' = mIdx + 1
                     /\ mpc' = IF mIdx < Len(mlog.token_ids)
                               THEN "fill_valuation" ELSE "filled"
    /\ UNCHANGED <<mlog, mmeta, mworld, text>>
    /\ UNCHANGED mainVars

(* Display for Valuation, lines 100-112 *)
ValuationToString(valuation) ==
    "DeepNFTValue valuation: <a href=\"" \o valuation.url \o "\"> "
    \o ToString(valuation.price) \o " ETH </a>"

(* Display for TopBid, lines 114-127 *)
TopBidToString(top_bid) ==
    "Top Bid (including fees): <a href=" \o top_bid.url \o "> "
    \o ToString(top_bid.price) \o " ETH on " \o top_bid.kind \o " </a>"

(* Display for MuToken, lines 129-142 *)
MuTokenToString(mu_token) ==
    mu_token.name \o " Derived Price: <a href=\"" \o mu_token.dexscreener_link
    \o "\"> " \o ToString(mu_token.derived_price) \o " ETH </a>"

(* Mutant: the profit line leaves the reference price out. *)
DeltaNoReference(token, mu_token) == token.top_bid.price

(* Display for Message, line 90: the arbitrage profit of one token *)
Delta(token, mu_token) == token.top_bid.price - mu_token.derived_price

(* Display for Message, lines 69-74: the valuation line of one token *)
ValuationLine(token) ==
    IF token.valuation.some THEN ValuationToString(token.valuation.v)
    ELSE "Error getting DeepNFTValue valuation for token"

(* Display for Message, lines 68-92: the lines of one token *)
TokenLines(token, mu_token) ==
    <<"Token " \o ToString(token.token_id) \o ": <a href=\"" \o token.blur_link
      \o "\">Blur</a> -- <a href=\"" \o token.flooring_link
      \o "\">Flooring</a> -- <a href=\"" \o token.opensea_pro_link
      \o "\">OpenSea Pro</a>",
      ValuationLine(token),
      TopBidToString(token.top_bid),
      "Estimated Arbitrage Profit: " \o ToString(Delta(token, mu_token))
      \o " ETH",
      "">>

RECURSIVE AllTokenLines(_, _)
AllTokenLines(tokens, mu_token) ==
    IF tokens = <<>> THEN <<>>
    ELSE TokenLines(Head(tokens), mu_token)
         \o AllTokenLines(Tail(tokens), mu_token)

(* Display for Message, lines 54-98 *)
MessageToString(m) ==
    <<m.etherscan_link, m.collection_header, MuTokenToString(m.mu_token), "">>
    \o AllTokenLines(m.tokens, m.mu_token)

(* Mutant: the Message is formatted while lookups are still to be made. *)
MsgDisplayBeforeJoin ==
    /\ mpc \in {"fill_valuation", "fill_top_bid", "filled"}
    /\ text' = MessageToString(msg)
    /\ mpc' = "shown"
    /\ UNCHANGED <<mlog, mmeta, mworld, msg, mIdx, mval, mcalls, mfail>>
    /\ UNCHANGED mainVars

(* The caller formats the filled Message. *)
MsgDisplay ==
    /\ mpc = "filled"
    /\ text' = MessageToString(msg)
    /\ mpc' = "shown"
    /\ UNCHANGED <<mlog, mmeta, mworld, msg, mIdx, mval, mcalls, mfail>>
    /\ UNCHANGED mainVars

MsgInit ==
    /\ MsgIdle
    /\ pc = "connect"
    /\ env \in Envs
    /\ from_block = None
    /\ evNo = 0
    /\ log = NoLog
    /\ meta = NoMeta
    /\ world = NoWorld
    /\ tokIdx = 0
    /\ out = <<>>
    /\ calls = <<>>
    /\ sends = <<>>
    /\ slept = 0
    /\ built = 0
    /\ item = "none"

MsgNext ==
    \/ MsgStart
    \/ FillHeader
    \/ FillMuToken
    \/ FillValuation
    \/ FillTopBid
    \/ MsgDisplay

SpecMsg == MsgInit /\ [][MsgNext]_vars

(* The task runs whenever it can: the steps that wait for nothing are      *)
(* taken.  The requests of the three lookups are awaited with no timeout   *)
(* (reqwest::Client::new(), .send().await), so nothing makes them end.     *)
SpecMsgFair ==
    /\ SpecMsg
    /\ WF_vars(MsgStart) /\ WF_vars(FillHeader) /\ WF_vars(MsgDisplay)

(* Display for Message as a function of the Message: the Messages it is   *)
(* applied to, built of the values its fields can hold (a Token's top_bid  *)
(* is TopBid::default() or the bid of an order).                           *)
ShowTopBids ==
    {DefaultTopBid,
     [url |-> JsonToString(JStr("https://blur.io")),
      kind |-> JsonToString(JStr("blur")), price |-> 6]}
ShowValuations ==
    {None, Some([url |-> "https://deepnftvalue.com/asset/pudgypenguins/1",
                 price |-> 5])}
ShowMessage(l, m, mu_price, valuations, top_bids) ==
    [etherscan_link |-> "https://etherscan.io/tx/" \o m.transaction_hash,
     collection_header |-> "\nCollection: " \o l.collection,
     mu_token |-> [dexscreener_link |->
                       "https://dexscreener.com/ethereum/" \o MuAddress,
                   name |-> "mu",
                   derived_price |-> DerivedPrice(mu_price)],
     tokens |-> [i \in 1..Len(l.token_ids) |->
                    NewToken(l.collection, l.token_ids[i], valuations[i],
                             top_bids[i])]]

ShowInit ==
    /\ mpc = "filled"
    /\ \E l \in Logs, m \in Metas, mu_price \in MuPrices,
          valuations \in [1..MaxTokens -> ShowValuations],
          top_bids \in [1..MaxTokens -> ShowTopBids] :
         /\ mlog = l
         /\ mmeta = m
         /\ msg = ShowMessage(l, m, mu_price, valuations, top_bids)
    /\ mworld = NoWorld
    /\ mIdx = 0
    /\ mval = None
    /\ mcalls = <<>>
    /\ mfail = NoFail
    /\ text = <<>>
    /\ pc = "connect"
    /\ env = FullEnv("0")
    /\ from_block = None
    /\ evNo = 0
    /\ log = NoLog
    /\ meta = NoMeta
    /\ world = NoWorld
    /\ tokIdx = 0
    /\ out = <<>>
    /\ calls = <<>>
    /\ sends = <<>>
    /\ slept = 0
    /\ built = 0
    /\ item = "none"

SpecShow == ShowInit /\ [][MsgDisplay]_vars

-----------------------------------------------------------------------------
(* Properties                                                              *)

Processing == {"bot_new", "header", "links", "valuation", "top_bid", "send"}
LastSend == sends[Len(sends)]

(* C1: events are processed one at a time and in delivery order: the k-th  *)
(* send is the one of event k, and while event evNo is being processed     *)
(* (its enrichment calls issued, its text composed) every earlier event    *)
(* has already had its delivery attempt.                                   *)
C1_OneEventAtATime ==
    /\ \A i \in 1..Len(sends) : sends[i].ev = i
    /\ pc \in Processing => Len(sends) = evNo - 1
    /\ calls # <<>> => pc \in Processing \cup {"panicked"}

C1_Witness ==
    /\ evNo = 2
    /\ pc = "top_bid"
    /\ calls # <<>>
    /\ Len(sends) = 1

(* C2: a filled Message holds one Token per element of log.token_ids, in   *)
(* the same order; while it is being filled its tokens are the tokens of   *)
(* the ids already looked up.                                              *)
C2_TokensMatchTokenIds ==
    /\ mpc \in {"filled", "shown"} => Len(msg.tokens) = Len(mlog.token_ids)
    /\ Len(msg.tokens) <= Len(mlog.token_ids)
    /\ \A i \in 1..Len(msg.tokens) : msg.tokens[i].token_id = mlog.token_ids[i]

C2_Witness ==
    /\ mpc = "shown"
    /\ mlog.token_ids = <<2, 1>>
    /\ Len(msg.tokens) = 2

(* The spec's totalProfit of an event: the sum over its tokens of          *)
(* topBid.price - derivedPrice, a token without an active bid counting 0.  *)
MinimumProfits == {1, 3}
BidPrice(orders) == IF orders = <<>> THEN 0 ELSE orders[1].decimal.n

RECURSIVE TotalProfit(_, _)
TotalProfit(token_ids, w) ==
    IF token_ids = <<>> THEN 0
    ELSE BidPrice(w.orders[Head(token_ids)]) - DerivedPrice(w.mu_price)
         + TotalProfit(Tail(token_ids), w)

(* C3: a delivery is attempted only when the event's totalProfit exceeds   *)
(* the configured minimumProfit (stated for the minimums 1 and 3).         *)
C3_SentOnlyAboveMinimum ==
    [][(Len(sends') > Len(sends) /\ log.token_ids # <<>>)
         => \A m \in MinimumProfits : TotalProfit(log.token_ids, world) > m]_vars

RECURSIVE SumDeltas(_, _)
SumDeltas(tokens, mu_token) ==
    IF tokens = <<>> THEN 0
    ELSE Delta(Head(tokens), mu_token) + SumDeltas(Tail(tokens), mu_token)

(* C4: every filled Message carries a totalProfit, the sum of its tokens'  *)
(* deltas.                                                                 *)
C4_TotalProfitIsSumOfDeltas ==
    mpc \in {"filled", "shown"}
        => /\ "total_profit" \in DOMAIN msg
           /\ msg.total_profit = SumDeltas(msg.tokens, msg.mu_token)

(* C5: after a failed send, until COOLDOWN_SECS seconds have passed the    *)
(* main task is held in the sleep, so nothing (no send, no enrichment) is  *)
(* issued before the cooldown has elapsed.                                 *)
C5_NoSendDuringCooldown ==
    (Len(sends) > 0 /\ ~LastSend.ok /\ slept < COOLDOWN_SECS)
        => pc = "sleeping"

C5_Witness ==
    /\ pc = "send"
    /\ Len(sends) = 1
    /\ ~sends[1].ok
    /\ slept = COOLDOWN_SECS

(* C6: each event's text is built once and sent at most once: no two       *)
(* sends are of the same event, a send follows a build, and once the send  *)
(* has returned (ok or failed) the text and the event are dropped.         *)
C6_BuiltOnceSentAtMostOnce ==
    /\ \A i, j \in 1..Len(sends) : sends[i].ev = sends[j].ev => i = j
    /\ Len(sends) <= built
    /\ built <= evNo
    /\ pc \in {"listening", "sleeping", "exited_ok"}
           => /\ built = evNo
              /\ Len(sends) = evNo
              /\ out = <<>>
              /\ log = NoLog

C6_Witness ==
    /\ Len(sends) = 2
    /\ ~sends[1].ok
    /\ sends[2].ok
    /\ pc = "listening"

EnrichmentFailures == {"transport", "shape", "empty"}

(* C7: a failed valuation or bid request of one token (transport failure,  *)
(* missing field) does not abort the Message: the task has not panicked.   *)
C7_EnrichmentFailureNeverAborts ==
    \A k \in 1..Len(mcalls) :
        (mcalls[k].svc \in {"valuation", "bids"}
           /\ mcalls[k].res \in EnrichmentFailures)
            => mpc # "panicked"

(* C8: an empty order list gives the token the zero-value bid and the      *)
(* delta -derived_price, and the Message is still built.                   *)
C8_EmptyOrdersGiveZeroBid ==
    \A k \in 1..Len(mcalls) :
        (mcalls[k].svc = "bids" /\ mcalls[k].res = "empty")
            => /\ mpc # "panicked"
               /\ mcalls[k].idx <= Len(msg.tokens)
               /\ msg.tokens[mcalls[k].idx].top_bid = DefaultTopBid
               /\ Delta(msg.tokens[mcalls[k].idx], msg.mu_token)
                      = 0 - msg.mu_token.derived_price

(* The lines of token i in the Message's text. *)
ValuationLineNo(i) == 4 + 5 * (i - 1) + 2
DeltaLineNo(i) == 4 + 5 * (i - 1) + 4

(* C9: an answer of the valuation service without the valuation object     *)
(* does not panic; the token's valuation is None, its bid lookup follows,  *)
(* its valuation line is the error marker and its delta is the bid price   *)
(* of the bid service minus the derived price.  The bid lookup follows:    *)
(* it is the next step, or its request is the next one, or it is the       *)
(* lookup that panicked before its request (no RESERVOIR_API_KEY).         *)
C9_MissingValuationIsAbsent ==
    \A k \in 1..Len(mcalls) :
        (mcalls[k].svc = "valuation" /\ mcalls[k].res = "no_valuation")
            => LET i == mcalls[k].idx
               IN  /\ ~(mpc = "panicked" /\ mfail.svc = "valuation"
                                         /\ mfail.idx = i)
                   /\ IF k = Len(mcalls)
                      THEN \/ mpc = "fill_top_bid" /\ mIdx = i /\ mval = None
                           \/ mfail.svc = "bids" /\ mfail.idx = i
                      ELSE mcalls[k + 1].svc = "bids" /\ mcalls[k + 1].idx = i
                   /\ i <= Len(msg.tokens) => msg.tokens[i].valuation = None
                   /\ mpc = "shown"
                        => /\ text[ValuationLineNo(i)]
                                = "Error getting DeepNFTValue valuation for token"
                           /\ text[DeltaLineNo(i)]
                                = "Estimated Arbitrage Profit: "
                                  \o ToString(
                                       BidPrice(mworld.orders[mlog.token_ids[i]])
                                       - msg.mu_token.derived_price)
                                  \o " ETH"

C9_Witness ==
    /\ mpc = "shown"
    /\ \E k \in 1..Len(mcalls) :
         /\ mcalls[k].svc = "valuation"
         /\ mcalls[k].res = "no_valuation"
         /\ mcalls[k].idx = 2
    /\ msg.tokens[1].valuation.some

(* C10: for a collection that is not in the slug table the header holds    *)
(* the address, no request to the valuation service is made, every token's *)
(* valuation is None (shown as the error marker) and no valuation lookup   *)
(* panics.                                                                 *)
C10_UnknownCollection ==
    (mlog.collection \notin DOMAIN collection_slugs
       /\ mpc \notin {"idle", "fill_header"})
        => /\ msg.collection_header = "\nCollection: " \o mlog.collection
           /\ \A k \in 1..Len(mcalls) : mcalls[k].svc # "valuation"
           /\ \A i \in 1..Len(msg.tokens) : ~msg.tokens[i].valuation.some
           /\ mfail.svc # "valuation"
           /\ mpc = "shown"
                => /\ text[2] = "\nCollection: " \o mlog.collection
                   /\ \A i \in 1..Len(msg.tokens) :
                        text[ValuationLineNo(i)]
                            = "Error getting DeepNFTValue valuation for token"

C10_Witness ==
    /\ mpc = "shown"
    /\ mlog.collection = "0x000000000000000000000000000000000000dead"
    /\ Len(msg.tokens) = 2
    /\ env["DEEP_API_KEY"].some

(* The sleep started by a failed send ends with main back at              *)
(* stream.next(), every event taken so far sent once and the next event    *)
(* of the stream accepted.                                                 *)
CooldownEndsInListening ==
    (pc = "sleeping")
        ~> (pc = "listening" /\ Len(sends) = evNo /\ Len(sends) > 0
              /\ ~sends[Len(sends)].ok
              /\ (evNo < MaxEvents => ENABLED StreamNextEvent))

(* C11: a failed send never stops the pipeline: the cooldown ends in       *)
(* Listening, and every event the stream delivers after a failed send is   *)
(* eventually processed up to its own send.                                *)
C11_DeliveryFailureNeverStops ==
    /\ CooldownEndsInListening
    /\ ((\E k \in 1..Len(sends) : ~sends[k].ok) /\ evNo > Len(sends))
          ~> (Len(sends) = evNo)

Terminal == {"panicked", "exited_ok", "exited_err"}

(* C12: main leaves the loop Listening -> Processing -> Listening only     *)
(* when the stream fails or ends: no step that made an enrichment request  *)
(* and no send or cooldown step ends in a terminal state.                  *)
C12_TerminalOnlyOnSubscriptionFailure ==
    [][/\ (Len(calls') > Len(calls) \/ pc \in {"send", "sleeping"})
            => pc' \notin Terminal
       /\ (pc = "listening" /\ pc' \in Terminal) => item' \in {"err", "end"}]_vars

(* C13: once stream.next() has yielded an error main is out of the loop    *)
(* and has returned: no event is taken after it, every event taken before  *)
(* it has had its send and nothing of an event is in progress.             *)
C13_StreamErrorTerminates ==
    item = "err" =>
        /\ pc = "exited_ok"
        /\ Len(sends) = evNo
        /\ log = NoLog
        /\ calls = <<>>

C13_Witness ==
    /\ item = "err"
    /\ pc = "exited_ok"
    /\ evNo = 1
    /\ Len(sends) = 1

(* C17: with STARTING_BLOCK unset or 0 main goes on to subscribe with no   *)
(* from-block filter; with a non-zero block number it subscribes with the  *)
(* filter set to that number.                                              *)
C17_StartingBlock ==
    [][pc = "configure" =>
         IF ~env["STARTING_BLOCK"].some \/ env["STARTING_BLOCK"].v = "0"
         THEN pc' = "subscribe" /\ from_block' = None
         ELSE ParseU64(env["STARTING_BLOCK"].v).some =>
                /\ pc' = "subscribe"
                /\ from_block' = Some(ParseU64(env["STARTING_BLOCK"].v).v)]_vars

(* C20: the sleep is entered exactly by a send that has just failed, so a  *)
(* successful send is never followed by a sleep and in the sleep the last  *)
(* send is a failed one; the sleep is left only once, after COOLDOWN_SECS  *)
(* seconds, for Listening, and is not entered again before another send    *)
(* fails.                                                                  *)
C20_CooldownOnlyAfterFailedSend ==
    [][/\ (pc # "sleeping" /\ pc' = "sleeping")
            <=> (Len(sends') = Len(sends) + 1 /\ ~sends'[Len(sends')].ok)
       /\ pc' = "sleeping"
            => /\ Len(sends') > 0
               /\ ~sends'[Len(sends')].ok
               /\ slept' <= COOLDOWN_SECS
       /\ (pc = "sleeping" /\ pc' # "sleeping")
            => /\ slept = COOLDOWN_SECS
               /\ pc' = "listening"
               /\ sends' = sends]_vars

C20_Witness ==
    /\ pc = "sleeping"
    /\ slept = 10
    /\ Len(sends) = 2
    /\ sends[1].ok
    /\ ~sends[2].ok

(* The request of service svc for the token at position i has been made    *)
(* and has come back with one of the results rs.                           *)
Completed(svc, i, rs) ==
    \E k \in 1..Len(mcalls) :
        /\ mcalls[k].svc = svc
        /\ mcalls[k].idx = i
        /\ mcalls[k].token = mlog.token_ids[i]
        /\ mcalls[k].res \in rs

(* C14: no text exists before fill_message has returned, and when it has   *)
(* returned every token's bid lookup and (for a known collection) its      *)
(* valuation lookup have completed and the Token at position i holds the   *)
(* results of the lookups of token_ids[i].                                 *)
C14_LookupsJoinedInTokenOrder ==
    /\ mpc # "shown" => text = <<>>
    /\ mpc \in {"filled", "shown"} =>
         /\ Len(msg.tokens) = Len(mlog.token_ids)
         /\ \A i \in 1..Len(mlog.token_ids) :
              /\ Completed("bids", i, {"ok"})
              /\ slug(mlog.collection).some
                   => Completed("valuation", i, {"ok", "no_valuation"})
              /\ msg.tokens[i].token_id = mlog.token_ids[i]
              /\ msg.tokens[i].top_bid.price
                   = BidPrice(mworld.orders[mlog.token_ids[i]])
              /\ msg.tokens[i].valuation.some
                   <=> Completed("valuation", i, {"ok"})
    /\ mpc = "shown" => text = MessageToString(msg)

C14_Witness ==
    /\ mpc = "shown"
    /\ mlog.token_ids = <<2, 1>>
    /\ ~msg.tokens[1].valuation.some
    /\ msg.tokens[2].valuation.some
    /\ msg.tokens[1].top_bid.price # msg.tokens[2].top_bid.price

(* The number of requests made to service svc for the event. *)
CallsTo(svc) == Cardinality({k \in 1..Len(mcalls) : mcalls[k].svc = svc})

(* C15: get_mu_token_details is called once per event whatever the number  *)
(* of tokens (one chain call, one price-feed request), and the profit line *)
(* of every token is its bid minus the one derived price it returned.      *)
C15_ReferenceLookupOncePerEvent ==
    /\ CallsTo("collection_info") <= 1
    /\ CallsTo("price_feed") <= 1
    /\ mpc \in {"fill_valuation", "fill_top_bid", "filled", "shown"} =>
         /\ CallsTo("collection_info") = 1
         /\ CallsTo("price_feed") = 1
         /\ msg.mu_token.derived_price = DerivedPrice(mworld.mu_price)
    /\ mpc = "shown" =>
         \A i \in 1..Len(mlog.token_ids) :
             text[DeltaLineNo(i)] =
                 "Estimated Arbitrage Profit: "
                 \o ToString(BidPrice(mworld.orders[mlog.token_ids[i]])
                             - DerivedPrice(mworld.mu_price))
                 \o " ETH"

C15_Witness ==
    /\ mpc = "shown"
    /\ Len(mlog.token_ids) = 2
    /\ mworld.mu_price = 3
    /\ CallsTo("price_feed") = 1
    /\ text[DeltaLineNo(1)] = "Estimated Arbitrage Profit: 3 ETH"
    /\ text[DeltaLineNo(2)] = "Estimated Arbitrage Profit: -3 ETH"

(* C19: when the valuation service answers with a valuation object whose   *)
(* price is missing or is no decimal number, get_valuation returns None    *)
(* like for a missing object: it does not panic, the bid lookup of the     *)
(* same token follows and the Token's valuation is None.                   *)
C19_BadValuationPriceIsAbsent ==
    \A k \in 1..Len(mcalls) :
        (mcalls[k].svc = "valuation" /\ mcalls[k].res = "shape")
            => LET i == mcalls[k].idx
               IN  /\ ~(mpc = "panicked" /\ mfail.svc = "valuation"
                          /\ mfail.idx = i)
                   /\ i <= Len(msg.tokens) => msg.tokens[i].valuation = None

Awaiting == {"mu_token", "fill_valuation", "fill_top_bid"}

(* C16: every external call is bounded: fill_message never waits for the   *)
(* answer of a request for ever, each awaited lookup ends (with an answer  *)
(* or, past the bound, as absent) and the event's processing goes on.      *)
C16_EveryCallBounded ==
    (mpc \in Awaiting) ~> (mpc \notin Awaiting)

BidLineNo(i) == 4 + 5 * (i - 1) + 3

(* C18: in the text of a Message the bid line of a token whose bid is the  *)
(* zero-value bid (price 0, empty source) is the "no active bids" marker:  *)
(* it is not a line showing a price and a marketplace name.                *)
C18_ZeroBidShownAsNoActiveBids ==
    mpc = "shown" =>
        \A i \in 1..Len(msg.tokens) :
            msg.tokens[i].top_bid = DefaultTopBid
                => text[BidLineNo(i)]
                     \notin {TopBidToString(b) : b \in ShowTopBids}

(* The step of fill_message a request belongs to: the reference-token     *)
(* lookup's chain call and price-feed request, then for the token at       *)
(* position i its valuation request and its bid request.                   *)
CallRank(c) ==
    CASE c.svc = "collection_info" -> 0
      [] c.svc = "price_feed" -> 1
      [] c.svc = "valuation" -> 2 * c.idx
      [] c.svc = "bids" -> 2 * c.idx + 1

(* C21: the requests of one event are made one after the other in a fixed  *)
(* order: the reference-token lookup first, then for each token in         *)
(* token_ids order its valuation request and then its bid request, each    *)
(* made once and only when the one before has come back with an answer;    *)
(* at any time at most one lookup is awaited.                              *)
C21_LookupsSequential ==
    /\ \A j, k \in 1..Len(mcalls) :
         j < k => /\ CallRank(mcalls[j]) < CallRank(mcalls[k])
                  /\ mcalls[j].res \in {"ok", "no_valuation"}
    /\ \A k \in 1..Len(mcalls) :
         /\ mcalls[k].svc \in {"collection_info", "price_feed"}
              => mcalls[k].idx = 0
         /\ mcalls[k].idx > 0
              => /\ mcalls[k].idx <= Len(mlog.token_ids)
                 /\ mcalls[k].token = mlog.token_ids[mcalls[k].idx]
                 /\ CallsTo("price_feed") = 1
    /\ mpc \in {"fill_valuation", "fill_top_bid"} =>
         /\ mIdx = Len(msg.tokens) + 1
         /\ \A k \in 1..Len(mcalls) :
              CallRank(mcalls[k])
                  < (IF mpc = "fill_valuation" THEN 2 * mIdx ELSE 2 * mIdx + 1)
    /\ mpc = "mu_token" => mcalls = <<>>

C21_Witness ==
    /\ mpc = "filled"
    /\ mlog.token_ids = <<1, 2>>
    /\ Len(mcalls) = 6
    /\ mcalls[3].svc = "valuation" /\ mcalls[3].token = 1
    /\ mcalls[4].svc = "bids" /\ mcalls[4].token = 1
    /\ mcalls[5].svc = "valuation" /\ mcalls[5].token = 2
    /\ mcalls[6].svc = "bids" /\ mcalls[6].token = 2

-----------------------------------------------------------------------------
====
